---- MODULE Spec2Model ----
(***************************************************************************)
(* Model of send_sms.py: one run of main(), from the command line and the  *)
(* process environment to the exit status.  The steps of main() are the    *)
(* actions; the vendor SDK, the requests library and the HTTP endpoint are *)
(* the environment, whose outcomes are chosen nondeterministically.        *)
(***************************************************************************)
EXTENDS Naturals, Sequences, FiniteSets, TLC

VARIABLES
    argv,        \* the command line: the value of each flag, None when the flag is not given
    environ,     \* the process environment: TWILIO_* variables, None when unset
    pc,          \* position of the run inside main() and the transport it called
    args,        \* the namespace returned by parse_args()
    account_sid, \* locals of main()
    auth_token,
    from_number,
    to_number,
    body,
    calls,       \* the transport functions called so far, with their arguments
    net,         \* the requests put on the network so far
    raised,      \* the exceptions raised so far, with the place that raised them
    message,     \* what client.messages.create returned
    resp,        \* what requests.post returned
    result,      \* local `result` of main()
    stdout,      \* the lines printed
    stderr,      \* the lines written to standard error
    exitCode     \* the exit status of the process, None while it runs

vars == <<argv, environ, pc, args, account_sid, auth_token, from_number, to_number,
          body, calls, net, raised, message, resp, result, stdout, stderr, exitCode>>

-----------------------------------------------------------------------------
(* Values *)

\* Python's None: an absent flag, an unset variable, an unassigned local.
None == "<None>"

\* The number of distinct message identifiers the vendor may hand out.
MaxSid == 2

\* timeout=30 of requests.post
Timeout == 30

\* bool(v) of a value that is None or a string
Truthy(v) == v # None /\ v # ""


\* `b or a`: the environment variable before the flag
PyOr_EnvFirst(a, b) == IF Truthy(b) THEN b ELSE a

\* `a or b`
PyOr(a, b) == IF Truthy(a) THEN a ELSE b

\* os.getenv(name): the variable's value, None when it is unset
Getenv(name) == environ[name]

\* A dict is the set of its <<key, value>> items.
DictGet(d, k) == (CHOOSE kv \in d : kv[1] = k)[2]

Sids == {"SM" \o ToString(i) : i \in 1..MaxSid}
MessageStatuses == {"queued", "failed"}

\* The objects client.messages.create can return: sid and status among other attributes.
Messages ==
    {{<<"sid", s>>, <<"status", st>>, <<"direction", "outbound-api">>} :
        s \in Sids, st \in MessageStatuses}

\* The bodies an HTTP response can carry: a JSON document, or text that is not JSON.
NotJson == {<<"<raw>", "not json">>}
JsonDocs ==
    {{<<"sid", s>>, <<"status", st>>, <<"num_segments", "1">>} :
        s \in Sids, st \in MessageStatuses}
StatusCodes == {201, 304, 401, 500}
Responses == [status_code : StatusCodes, content : JsonDocs \cup {NotJson}]
NoResponse == [status_code |-> 0, content |-> {}]

\* `isinstance(e, ImportError)` of an exception of class t
IsImportError(t) == t \in {"ImportError", "ModuleNotFoundError"}
NoFlags == [to |-> None, body |-> None, account_sid |-> None, auth_token |-> None,
            from_number |-> None]

-----------------------------------------------------------------------------
(* send_with_twilio *)


\* return the whole message object instead of its sid and status
TwilioResult_Whole(m) == m

\* return {"sid": message.sid, "status": message.status}
TwilioResult(m) == {<<"sid", DictGet(m, "sid")>>, <<"status", DictGet(m, "status")>>}

\* client.messages.create(body=body, from_=from_number, to=to_number) on a client
\* built from (account_sid, auth_token)
CreateRequest(sid, tok, frm, to, b) ==
    [kind |-> "messages.create", url |-> "", From |-> frm, To |-> to, Body |-> b,
     auth |-> <<sid, tok>>, timeout |-> 0]

(* send_with_requests *)

\* the f-string of the endpoint
MessagesUrl(sid) == "https://api.twilio.com/2010-04-01/Accounts/" \o sid \o "/Messages.json"

\* auth=(account_sid, auth_token)
BasicAuth(sid, tok) == <<sid, tok>>


\* the payload with "From" and "To" exchanged
PostRequest_Swapped(sid, tok, frm, to, b) ==
    [kind |-> "POST", url |-> MessagesUrl(sid), From |-> to, To |-> frm, Body |-> b,
     auth |-> BasicAuth(sid, tok), timeout |-> Timeout]

\* requests.post(url, data=payload, auth=..., timeout=30)
PostRequest(sid, tok, frm, to, b) ==
    [kind |-> "POST", url |-> MessagesUrl(sid), From |-> frm, To |-> to, Body |-> b,
     auth |-> BasicAuth(sid, tok), timeout |-> Timeout]

\* resp.raise_for_status() raises HTTPError on a client or server error status
RaisesForStatus(code) == 400 <= code /\ code < 600

\* resp.json() parses the body, and raises when it is not JSON
IsJson(content) == content # NotJson

(* main *)

\* the flags argparse requires
RequiredPresent(a) == a.to # None /\ a.body # None


\* the check without from_number
CredentialsPresent_NoSender(sid, tok, frm) == Truthy(sid) /\ Truthy(tok)

\* the check without auth_token
CredentialsPresent_NoToken(sid, tok, frm) == Truthy(sid) /\ Truthy(frm)

\* account_sid and auth_token and from_number
CredentialsPresent(sid, tok, frm) == Truthy(sid) /\ Truthy(tok) /\ Truthy(frm)

\* the handler main() runs for an exception leaving send_with_twilio
PrimaryHandler(t) == IF IsImportError(t) THEN "fallback" ELSE "fail"


\* a handler that posts again instead of re-raising
AfterFallbackFailure_RetryPost == "rq_post"

\* a handler that starts the fallback over instead of re-raising
AfterFallbackFailure_Refallback == "fallback"

\* where the run goes after the handler of a failed send_with_requests: `raise`
AfterFallbackFailure == "done"

Call(fn) ==
    [fn |-> fn, account_sid |-> account_sid, auth_token |-> auth_token,
     from_number |-> from_number, to_number |-> to_number, body |-> body]

Raise(t, origin) == Append(raised, [type |-> t, origin |-> origin])

Line(text, value) == [text |-> text, value |-> value]

-----------------------------------------------------------------------------
(* Initial states: any command line and any environment *)

CliSid == {None, "", "AC123"}
CliToken == {None, "", "tok"}
CliFrom == {None, "", "+15550000000"}
CliTo == {None, "", "+15551234567"}
CliBody == {None, "", "Hello"}
EnvSid == {None, "", "ACenv"}
EnvToken == {None, "", "envtok"}
EnvFrom == {None, "", "+15559999999"}

Init ==
    /\ argv \in [to : CliTo, body : CliBody, account_sid : CliSid, auth_token : CliToken,
                 from_number : CliFrom]
    /\ environ \in [TWILIO_ACCOUNT_SID : EnvSid, TWILIO_AUTH_TOKEN : EnvToken,
                    TWILIO_FROM : EnvFrom]
    /\ pc = "parse_args"
    /\ args = NoFlags
    /\ account_sid = None
    /\ auth_token = None
    /\ from_number = None
    /\ to_number = None
    /\ body = None
    /\ calls = <<>>
    /\ net = <<>>
    /\ raised = <<>>
    /\ message = {}
    /\ resp = NoResponse
    /\ result = {}
    /\ stdout = <<>>
    /\ stderr = <<>>
    /\ exitCode = None

-----------------------------------------------------------------------------
(* Actions *)

\* args = parse_args(): argparse exits with status 2 when a required flag is missing
ParseArgs ==
    /\ pc = "parse_args"
    /\ IF RequiredPresent(argv)
       THEN /\ args' = argv
            /\ pc' = "resolve"
            /\ UNCHANGED <<stderr, exitCode>>
       ELSE /\ stderr' = Append(stderr, "error: the following arguments are required")
            /\ exitCode' = 2
            /\ pc' = "done"
            /\ UNCHANGED args
    /\ UNCHANGED <<argv, environ, account_sid, auth_token, from_number, to_number, body,
                   calls, net, raised, message, resp, result, stdout>>

\* main(), from the merge of flags and environment to the call of send_with_twilio
ResolveConfig ==
    /\ pc = "resolve"
    /\ LET sid == PyOr(args.account_sid, Getenv("TWILIO_ACCOUNT_SID"))
           tok == PyOr(args.auth_token, Getenv("TWILIO_AUTH_TOKEN"))
           frm == PyOr(args.from_number, Getenv("TWILIO_FROM"))
       IN  /\ account_sid' = sid
           /\ auth_token' = tok
           /\ from_number' = frm
           /\ IF CredentialsPresent(sid, tok, frm)
              THEN /\ to_number' = args.to
                   /\ body' = args.body
                   /\ calls' = Append(calls,
                          [fn |-> "send_with_twilio", account_sid |-> sid,
                           auth_token |-> tok, from_number |-> frm,
                           to_number |-> args.to, body |-> args.body])
                   /\ pc' = "tw_import"
                   /\ UNCHANGED <<stderr, exitCode>>
              ELSE /\ stderr' = Append(stderr, "Missing credentials. Set TWILIO_ACCOUNT_SID, TWILIO_AUTH_TOKEN, and TWILIO_FROM env vars or pass them via CLI.")
                   /\ exitCode' = 1
                   /\ pc' = "done"
                   /\ UNCHANGED <<to_number, body, calls>>
    /\ UNCHANGED <<argv, environ, args, net, raised, message, resp, result, stdout>>

\* from twilio.rest import Client: whatever the import raises becomes ImportError
TwilioImport ==
    /\ pc = "tw_import"
    /\ \E outcome \in {"ok", "ModuleNotFoundError", "SyntaxError"} :
         IF outcome = "ok"
         THEN pc' = "tw_client" /\ UNCHANGED raised
         ELSE pc' = "tw_raised" /\ raised' = Raise("ImportError", "import")
    /\ UNCHANGED <<argv, environ, args, account_sid, auth_token, from_number, to_number,
                   body, calls, net, message, resp, result, stdout, stderr, exitCode>>

\* client = Client(account_sid, auth_token)
TwilioClient ==
    /\ pc = "tw_client"
    /\ \/ pc' = "tw_create" /\ UNCHANGED raised
       \/ \E t \in {"TwilioRestException", "ImportError", "ModuleNotFoundError"} :
            pc' = "tw_raised" /\ raised' = Raise(t, "Client")
    /\ UNCHANGED <<argv, environ, args, account_sid, auth_token, from_number, to_number,
                   body, calls, net, message, resp, result, stdout, stderr, exitCode>>

\* message = client.messages.create(...); return {"sid": ..., "status": ...}
\* The call returns a message after its request was sent, or raises, before or
\* after the request was sent.
TwilioCreate ==
    /\ pc = "tw_create"
    /\ LET req == CreateRequest(account_sid, auth_token, from_number, to_number, body)
       IN  \/ \E m \in Messages :
                /\ net' = Append(net, req)
                /\ message' = m
                /\ result' = TwilioResult(m)
                /\ pc' = "tw_returned"
                /\ UNCHANGED raised
           \/ \E t \in {"TwilioRestException", "ConnectionError", "ImportError"},
                 sent \in BOOLEAN :
                /\ net' = IF sent THEN Append(net, req) ELSE net
                /\ raised' = Raise(t, "messages.create")
                /\ pc' = "tw_raised"
                /\ UNCHANGED <<message, result>>
    /\ UNCHANGED <<argv, environ, args, account_sid, auth_token, from_number, to_number,
                   body, calls, resp, stdout, stderr, exitCode>>

\* print("Sent via twilio package. Result:", result), and main() returns
PrimaryDone ==
    /\ pc = "tw_returned"
    /\ stdout' = Append(stdout, Line("Sent via twilio package. Result:", result))
    /\ exitCode' = 0
    /\ pc' = "done"
    /\ UNCHANGED <<argv, environ, args, account_sid, auth_token, from_number, to_number,
                   body, calls, net, raised, message, resp, result, stderr>>

\* except ImportError: print(...), on the way to the fallback
PrimaryImportError ==
    /\ pc = "tw_raised"
    /\ PrimaryHandler(raised[Len(raised)].type) = "fallback"
    /\ stdout' = Append(stdout,
           Line("twilio package not installed; attempting HTTP fallback using requests.", {}))
    /\ pc' = "fallback"
    /\ UNCHANGED <<argv, environ, args, account_sid, auth_token, from_number, to_number,
                   body, calls, net, raised, message, resp, result, stderr, exitCode>>

\* except Exception as e: print("Failed to send via twilio package:", str(e)); raise
PrimaryFailed ==
    /\ pc = "tw_raised"
    /\ PrimaryHandler(raised[Len(raised)].type) = "fail"
    /\ stdout' = Append(stdout,
           Line("Failed to send via twilio package:", {<<"str(e)", raised[Len(raised)].type>>}))
    /\ stderr' = Append(stderr, "Traceback (most recent call last):")
    /\ exitCode' = 1
    /\ pc' = "done"
    /\ UNCHANGED <<argv, environ, args, account_sid, auth_token, from_number, to_number,
                   body, calls, net, raised, message, resp, result>>

\* result = send_with_requests(...): the call
CallRequests ==
    /\ pc = "fallback"
    /\ calls' = Append(calls, Call("send_with_requests"))
    /\ pc' = "rq_import"
    /\ UNCHANGED <<argv, environ, args, account_sid, auth_token, from_number, to_number,
                   body, net, raised, message, resp, result, stdout, stderr, exitCode>>

\* import requests
RequestsImport ==
    /\ pc = "rq_import"
    /\ \/ pc' = "rq_post" /\ UNCHANGED raised
       \/ pc' = "rq_raised" /\ raised' = Raise("ModuleNotFoundError", "import requests")
    /\ UNCHANGED <<argv, environ, args, account_sid, auth_token, from_number, to_number,
                   body, calls, net, message, resp, result, stdout, stderr, exitCode>>

\* resp = requests.post(url, data=payload, auth=(account_sid, auth_token), timeout=30)
RequestsPost ==
    /\ pc = "rq_post"
    /\ LET req == PostRequest(account_sid, auth_token, from_number, to_number, body)
       IN  \/ \E r \in Responses :
                /\ net' = Append(net, req)
                /\ resp' = r
                /\ pc' = "rq_status"
                /\ UNCHANGED raised
           \/ \E t \in {"ConnectionError", "Timeout"}, sent \in BOOLEAN :
                /\ net' = IF sent THEN Append(net, req) ELSE net
                /\ raised' = Raise(t, "requests.post")
                /\ pc' = "rq_raised"
                /\ UNCHANGED resp
    /\ UNCHANGED <<argv, environ, args, account_sid, auth_token, from_number, to_number,
                   body, calls, message, result, stdout, stderr, exitCode>>

\* resp.raise_for_status()
RaiseForStatus ==
    /\ pc = "rq_status"
    /\ IF RaisesForStatus(resp.status_code)
       THEN pc' = "rq_raised" /\ raised' = Raise("HTTPError", "raise_for_status")
       ELSE pc' = "rq_json" /\ UNCHANGED raised
    /\ UNCHANGED <<argv, environ, args, account_sid, auth_token, from_number, to_number,
                   body, calls, net, message, resp, result, stdout, stderr, exitCode>>

\* return resp.json()
RespJson ==
    /\ pc = "rq_json"
    /\ IF IsJson(resp.content)
       THEN /\ result' = resp.content
            /\ pc' = "rq_returned"
            /\ UNCHANGED raised
       ELSE /\ raised' = Raise("JSONDecodeError", "resp.json")
            /\ pc' = "rq_raised"
            /\ UNCHANGED result
    /\ UNCHANGED <<argv, environ, args, account_sid, auth_token, from_number, to_number,
                   body, calls, net, message, resp, stdout, stderr, exitCode>>

\* print("Sent via HTTP API. Response:"); print(result), and main() returns
FallbackDone ==
    /\ pc = "rq_returned"
    /\ stdout' = stdout \o <<Line("Sent via HTTP API. Response:", {}), Line("", result)>>
    /\ exitCode' = 0
    /\ pc' = "done"
    /\ UNCHANGED <<argv, environ, args, account_sid, auth_token, from_number, to_number,
                   body, calls, net, raised, message, resp, result, stderr>>

\* except Exception as e: print("Failed to send message via HTTP API:", str(e)); raise
FallbackFailed ==
    /\ pc = "rq_raised"
    /\ stdout' = Append(stdout,
           Line("Failed to send message via HTTP API:", {<<"str(e)", raised[Len(raised)].type>>}))
    /\ IF AfterFallbackFailure = "done"
       THEN /\ stderr' = Append(stderr, "Traceback (most recent call last):")
            /\ exitCode' = 1
       ELSE UNCHANGED <<stderr, exitCode>>
    /\ pc' = AfterFallbackFailure
    /\ UNCHANGED <<argv, environ, args, account_sid, auth_token, from_number, to_number,
                   body, calls, net, raised, message, resp, result>>

Next ==
    \/ ParseArgs
    \/ ResolveConfig
    \/ TwilioImport
    \/ TwilioClient
    \/ TwilioCreate
    \/ PrimaryDone
    \/ PrimaryImportError
    \/ PrimaryFailed
    \/ CallRequests
    \/ RequestsImport
    \/ RequestsPost
    \/ RaiseForStatus
    \/ RespJson
    \/ FallbackDone
    \/ FallbackFailed

Spec == Init /\ [][Next]_vars

\* The run is one thread of blocking calls, each of which returns or raises:
\* a step that can be taken is taken.
FairSpec == Spec /\ WF_vars(Next)

-----------------------------------------------------------------------------
(* Vocabulary of the properties *)

Called(fn) == \E i \in DOMAIN calls : calls[i].fn = fn
CallCount(fn) == Cardinality({i \in DOMAIN calls : calls[i].fn = fn})
Sent(kind) == {i \in DOMAIN net : net[i].kind = kind}
RaisedAt(origins) == \E i \in DOMAIN raised : raised[i].origin \in origins

\* a credential given neither by its flag nor by its environment variable
Missing(cli, env) == cli \in {None, ""} /\ env \in {None, ""}
AnyMissing ==
    \/ Missing(argv.account_sid, environ.TWILIO_ACCOUNT_SID)
    \/ Missing(argv.auth_token, environ.TWILIO_AUTH_TOKEN)
    \/ Missing(argv.from_number, environ.TWILIO_FROM)

Exited == pc = "done"
ExitedNonZero == pc = "done" /\ exitCode # 0

\* the SDK could not be loaded
SdkLoadFailed == RaisedAt({"import"})
\* send_with_twilio failed after the SDK was loaded
PrimaryFailedOtherwise == RaisedAt({"Client", "messages.create"})
\* send_with_requests failed
FallbackFailure == RaisedAt({"import requests", "requests.post", "raise_for_status", "resp.json"})
FailurePrinted ==
    \E i \in DOMAIN stdout :
        stdout[i].text \in {"Failed to send via twilio package:",
                            "Failed to send message via HTTP API:"}

Phase(p) ==
    CASE p \in {"parse_args", "resolve"} -> "Configuring"
      [] p \in {"tw_import", "tw_client", "tw_create", "tw_returned", "tw_raised"} -> "SendingPrimary"
      [] p = "fallback" -> "FallingBack"
      [] p \in {"rq_import", "rq_post", "rq_status", "rq_json", "rq_returned", "rq_raised"} -> "SendingFallback"
      [] p = "done" -> "Done"

-----------------------------------------------------------------------------
(* Properties *)

\* C1: when, after the merge of flags and environment, account id, auth token or
\* sender number is missing or empty, no transport is ever called, no request is
\* put on the network, and the process ends with a non-zero exit status.
C1_MissingCredentialsExit ==
    AnyMissing =>
        /\ calls = <<>>
        /\ net = <<>>
        /\ (Exited => exitCode # 0)

\* a run with both required flags that main() ended for a missing credential
C1_Witness ==
    /\ AnyMissing
    /\ RequiredPresent(argv)
    /\ Exited
    /\ exitCode = 1
    /\ stderr # <<>>

\* C2: send_with_requests is called only when the SDK could not be loaded; when
\* send_with_twilio fails for another reason (raised by the client's construction
\* or by messages.create) send_with_requests is never called and the process
\* ends with a non-zero exit status.
C2_FallbackOnlyOnSdkLoadFailure ==
    /\ Called("send_with_requests") => SdkLoadFailed
    /\ PrimaryFailedOtherwise =>
            /\ ~Called("send_with_requests")
            /\ (Exited => exitCode # 0)

\* C3: when the SDK cannot be loaded and the endpoint answers 2xx with a JSON
\* body, the run has sent exactly one POST, to the Messages.json URL of the
\* account, with From, To, Body the resolved sender, the recipient and the body,
\* and Basic auth (account id, auth token); it prints that JSON body unchanged
\* and exits 0.
C3_FallbackSuccess ==
    (/\ Exited
     /\ SdkLoadFailed
     /\ resp.status_code \in 200..299
     /\ resp.content \in JsonDocs) =>
        /\ Len(net) = 1
        /\ net[1].kind = "POST"
        /\ net[1].url = "https://api.twilio.com/2010-04-01/Accounts/" \o account_sid
                            \o "/Messages.json"
        /\ net[1].From = from_number
        /\ net[1].To = argv.to
        /\ net[1].Body = argv.body
        /\ net[1].auth = <<account_sid, auth_token>>
        /\ stdout[Len(stdout)].value = resp.content
        /\ exitCode = 0

\* a finished run of the fallback that was answered 201 with a JSON body
C3_Witness ==
    /\ Exited
    /\ SdkLoadFailed
    /\ resp.status_code = 201
    /\ resp.content \in JsonDocs
    /\ Len(net) = 1
    /\ exitCode = 0

\* C4: send_with_requests sends at most one POST in a run, and when the response
\* carries a client or server error status, or the request fails by network error
\* or timeout, the process ends with a non-zero exit status.
C4_NoRetry ==
    /\ Cardinality(Sent("POST")) <= 1
    /\ (Exited /\ (resp.status_code \in 400..599 \/ RaisedAt({"requests.post"})))
            => exitCode # 0

\* a finished run whose single POST was answered 401
C4_Witness ==
    /\ Exited
    /\ resp.status_code = 401
    /\ Cardinality(Sent("POST")) = 1
    /\ exitCode = 1

\* C5 as stated: for each credential, when the flag and the environment variable
\* are both present the transport is handed the flag's value, and the environment
\* variable is used only where the flag is absent.
C5_FlagPresentWins ==
    \A i \in DOMAIN calls :
        /\ argv.account_sid # None => calls[i].account_sid = argv.account_sid
        /\ argv.auth_token # None => calls[i].auth_token = argv.auth_token
        /\ argv.from_number # None => calls[i].from_number = argv.from_number

\* C5 as amended: for each credential, the transport is handed the flag's value
\* when the flag is given and not empty, and the environment variable's value
\* when the flag is absent or empty.
C5_NonEmptyFlagWins ==
    \A i \in DOMAIN calls :
        /\ calls[i].account_sid =
               IF argv.account_sid \notin {None, ""} THEN argv.account_sid
               ELSE environ.TWILIO_ACCOUNT_SID
        /\ calls[i].auth_token =
               IF argv.auth_token \notin {None, ""} THEN argv.auth_token
               ELSE environ.TWILIO_AUTH_TOKEN
        /\ calls[i].from_number =
               IF argv.from_number \notin {None, ""} THEN argv.from_number
               ELSE environ.TWILIO_FROM

\* a transport was called in a run where every credential was given both ways
C5_Witness ==
    /\ calls # <<>>
    /\ argv.account_sid = "AC123" /\ environ.TWILIO_ACCOUNT_SID = "ACenv"
    /\ argv.auth_token = "tok" /\ environ.TWILIO_AUTH_TOKEN = "envtok"
    /\ argv.from_number = "+15550000000" /\ environ.TWILIO_FROM = "+15559999999"

\* C6: when the SDK's message creation succeeds, what is reported is exactly the
\* sid and the status of the message the SDK returned, send_with_requests is not
\* called, and the process exits 0.
C6_PrimarySuccess ==
    (Exited /\ message # {}) =>
        /\ stdout = <<Line("Sent via twilio package. Result:",
                           {<<"sid", DictGet(message, "sid")>>,
                            <<"status", DictGet(message, "status")>>})>>
        /\ ~Called("send_with_requests")
        /\ exitCode = 0

\* a finished run in which the SDK returned message SM1, queued
C6_Witness ==
    /\ Exited
    /\ <<"sid", "SM1">> \in message
    /\ <<"status", "queued">> \in message
    /\ Len(stdout) = 1

\* C7: the exit status is 0 exactly when a transport returned a result; it is
\* non-zero on missing credentials, on a failure of send_with_twilio other than
\* the SDK not loading, and on any failure of send_with_requests, and in the two
\* transport-failure cases a failure message was printed.
C7_ExitStatus ==
    Exited =>
        /\ exitCode = 0 <=> result # {}
        /\ AnyMissing => exitCode # 0
        /\ PrimaryFailedOtherwise => (exitCode # 0 /\ FailurePrinted)
        /\ FallbackFailure => (exitCode # 0 /\ FailurePrinted)

\* The order of the phases without an exit from Configuring.
StatedOrder ==
    {<<"Configuring", "SendingPrimary">>, <<"SendingPrimary", "Done">>,
     <<"SendingPrimary", "FallingBack">>, <<"FallingBack", "SendingFallback">>,
     <<"SendingFallback", "Done">>}

\* C8 as stated: every run goes Configuring -> Sending(primary) -> Done or
\* Configuring -> Sending(primary) -> FallingBack -> Sending(fallback) -> Done,
\* each transport is attempted at most once, and every run reaches Done.
C8_StatedOrder ==
    /\ [][Phase(pc') # Phase(pc) => <<Phase(pc), Phase(pc')>> \in StatedOrder]_vars
    /\ [](CallCount("send_with_twilio") <= 1 /\ CallCount("send_with_requests") <= 1)
    /\ <>Exited

\* C8 as amended: every run goes Configuring -> Done (the parser or the
\* credential check ends it), Configuring -> Sending(primary) -> Done, or
\* Configuring -> Sending(primary) -> FallingBack -> Sending(fallback) -> Done;
\* no phase is entered twice, each transport is attempted at most once, and
\* every run reaches Done.
C8_Order ==
    /\ [][Phase(pc') # Phase(pc) =>
            <<Phase(pc), Phase(pc')>> \in StatedOrder \cup {<<"Configuring", "Done">>}]_vars
    /\ [](CallCount("send_with_twilio") <= 1 /\ CallCount("send_with_requests") <= 1)
    /\ [](Called("send_with_requests") => Called("send_with_twilio"))
    /\ <>Exited

\* a finished run that went through the fallback
C8_Witness ==
    /\ Exited
    /\ CallCount("send_with_twilio") = 1
    /\ CallCount("send_with_requests") = 1
    /\ Len(stdout) >= 2

\* C9 as stated: once a request has been put on the network, account id, auth
\* token, sender, recipient and body of that request are non-empty strings.
C9_AllFieldsNonEmpty ==
    \A i \in DOMAIN net :
        /\ net[i].auth[1] \notin {None, ""}
        /\ net[i].auth[2] \notin {None, ""}
        /\ net[i].From \notin {None, ""}
        /\ net[i].To \notin {None, ""}
        /\ net[i].Body \notin {None, ""}

\* C9 as amended: once a request has been put on the network, account id, auth
\* token and sender of that request are non-empty strings, and recipient and
\* body are the strings given with --to and --body, which may be empty.
C9_CredentialsNonEmpty ==
    \A i \in DOMAIN net :
        /\ net[i].auth[1] \notin {None, ""}
        /\ net[i].auth[2] \notin {None, ""}
        /\ net[i].From \notin {None, ""}
        /\ net[i].To = argv.to /\ argv.to # None
        /\ net[i].Body = argv.body /\ argv.body # None

\* a request went out with an empty recipient and an empty body
C9_Witness ==
    /\ net # <<>>
    /\ net[1].To = ""
    /\ net[1].Body = ""

\* C10: the request goes through at most one transport: the ImportError that
\* selects the fallback comes only from loading the SDK, so no run has both the
\* SDK's message-creation request and the POST of send_with_requests.
C10_OneTransport ==
    ~(Sent("messages.create") # {} /\ Sent("POST") # {})

====
